---- MODULE Spec2Model ----
(***************************************************************************)
(* Phasic Policy Gradient trainer (rlydoe/ppg.py).                         *)
(*                                                                         *)
(* Part 1 models the training loop of main() together with the parts of    *)
(* PPG.learn, PPG.learn_aux, PPG.save and PPG.load that change the         *)
(* buffers, the two networks and the two optimizers.  Part 2 models the    *)
(* numeric kernels (the GAE recurrence, clipped_value_loss, the clipped    *)
(* surrogate policy loss) as operators over a small binary floating-point  *)
(* format.                                                                 *)
(***************************************************************************)
EXTENDS Integers, Sequences, FiniteSets, TLC

VARIABLES
    cfg,                \* the keyword arguments of main() that drive the loop
    pc,                 \* position of main() in its code
    eps,                \* main: eps, the episode index of the outer loop
    timestep,           \* main: timestep, the index of the inner loop
    time,               \* main: time, the global step counter
    num_policy_updates, \* main: num_policy_updates
    memories,           \* main: memories, deque of Memory
    aux_memories,       \* main: aux_memories, deque of AuxMemory
    state,              \* main: state, the observation the next action is chosen on
    next_state,         \* main: next_state, the observation env.step returned last
    done,               \* main: done, as env.step returned it last
    env_obs,            \* number of observations the environment has emitted
    agent,              \* the PPG object: both networks, both optimizers
    ckpt,               \* the file ./ppg.pt
    epoch,              \* learn / learn_aux: index of the running epoch
    batches_left,       \* learn / learn_aux: minibatches the DataLoader still yields this epoch
    learn_calls,        \* history: number of calls of agent.learn so far
    aux_calls,          \* history: number of calls of agent.learn_aux so far
    fn                  \* input and result of a numeric kernel (Part 2)

mainvars == <<cfg, pc, eps, timestep, time, num_policy_updates, memories,
              aux_memories, state, next_state, done, env_obs, agent, ckpt,
              epoch, batches_left, learn_calls, aux_calls>>
vars == <<cfg, pc, eps, timestep, time, num_policy_updates, memories,
          aux_memories, state, next_state, done, env_obs, agent, ckpt,
          epoch, batches_left, learn_calls, aux_calls, fn>>

(***************************************************************************)
(* Bounds of the model.                                                    *)
(***************************************************************************)
NumEpisodes == 2       \* num_episodes of every run
MaxTimesteps == 3      \* largest max_timesteps of a run

UpdateTimesteps == {1, 2, 3}     \* update_timesteps
PolicyUpdatesPerAux == {1, 2}    \* num_policy_updates_per_aux
Epochs == {1, 2}                 \* epochs
EpochsAux == {0, 1}              \* epochs_aux
MinibatchSizes == {1, 2}         \* minibatch_size
SaveEvery == {1, 2}              \* save_every

(***************************************************************************)
(* Networks, optimizers, checkpoint.                                       *)
(*                                                                         *)
(* The parameters of a network are a value [net, origin, steps]: whose     *)
(* parameters they are, where they started (a fresh initialisation or the  *)
(* checkpoint of an earlier run) and how many optimizer steps were applied *)
(* to them since.  An optimizer's state is the number of steps it took.    *)
(***************************************************************************)
\* os.path.exists("./ppg.pt") is false
NoFile == [exists |-> FALSE]

FreshParams(net) == [net |-> net, origin |-> "init", steps |-> 0]

\* PPG.__init__: two networks, one Adam optimizer over each network's parameters
NewAgent ==
    [actor |-> FreshParams("actor"), critic |-> FreshParams("critic"),
     opt_actor |-> 0, opt_critic |-> 0, grads |-> {}]

\* variant: each optimizer is constructed over the other network's parameters
OptimizerParams_swapped(opt) ==
    IF opt = "opt_actor" THEN {"critic"} ELSE {"actor"}

\* the parameters an optimizer was constructed over (Adam(self.actor.parameters()), ...)
OptimizerParams(opt) ==
    IF opt = "opt_actor" THEN {"actor"} ELSE {"critic"}

\* one optimizer.step() applied to a network's parameters
Stepped(p) == [p EXCEPT !.steps = @ + 1]

\* update_network_(loss, optimizer); loss_nets are the networks the loss was
\* computed from (the leaves of its autograd graph).
\*   optimizer.zero_grad()   clears the gradients of the optimizer's parameters
\*   loss.mean().backward()  accumulates gradients into loss_nets
\*   optimizer.step()        moves those of its parameters that hold a gradient
update_network_(ag, loss_nets, opt) ==
    LET zeroed == ag.grads \ OptimizerParams(opt)
        grads  == zeroed \cup loss_nets
        moved  == OptimizerParams(opt) \cap grads
    IN  [ag EXCEPT !.grads = grads,
                   !.actor = IF "actor" \in moved THEN Stepped(@) ELSE @,
                   !.critic = IF "critic" \in moved THEN Stepped(@) ELSE @,
                   ![opt] = @ + 1]

\* PPG.save: the state dicts of both networks go to ./ppg.pt
save(ag) == [exists |-> TRUE, actor |-> ag.actor, critic |-> ag.critic]

\* variant: only the actor's state dict is loaded
load_actor_only(ag, file) ==
    IF ~file.exists THEN ag
    ELSE [ag EXCEPT !.actor = file.actor]

\* PPG.load: nothing when ./ppg.pt does not exist, else both state dicts are loaded
load(ag, file) ==
    IF ~file.exists THEN ag
    ELSE [ag EXCEPT !.actor = file.actor, !.critic = file.critic]

\* a checkpoint an earlier run's PPG.save left behind
PriorCheckpoint ==
    [exists |-> TRUE,
     actor |-> [net |-> "actor", origin |-> "prior", steps |-> 0],
     critic |-> [net |-> "critic", origin |-> "prior", steps |-> 0]]

(***************************************************************************)
(* Buffers.                                                                *)
(***************************************************************************)
\* Memory(state, action, action_log_prob, reward, done, value).  The state is
\* the observation's identity, the value names the critic parameters and the
\* observation it was computed from; t is the value of `time` at recording and
\* returned the observation env.step gave back for this transition (history
\* tags).  Action, log-probability and reward do not influence the loop and
\* are left out.
Memory(s, d, ag, t, returned) ==
    [state |-> s, done |-> d, value |-> [critic |-> ag.critic, state |-> s],
     t |-> t, returned |-> returned]

\* PPG.learn lines 197-202: the recorded values followed by the critic's value
\* of next_state; values[i + 1] is the successor value line 207 reads for
\* transition i
GaeValues(mems, bootstrap_state, ag) ==
    Append([i \in 1..Len(mems) |-> mems[i].value],
           [critic |-> ag.critic, state |-> bootstrap_state])

\* AuxMemory(states, target_value, old_values) as PPG.learn builds it from the
\* trajectory: one entry per buffered transition.
AuxMemory(mems, bootstrap) ==
    [states |-> [i \in 1..Len(mems) |-> mems[i].state],
     target_value |-> [i \in 1..Len(mems) |-> mems[i].t],
     old_values |-> [i \in 1..Len(mems) |-> mems[i].value]]

\* len(DataLoader(ds, batch_size, shuffle=True)): the last batch may be short
NumBatches(n, batch_size) == (n + batch_size - 1) \div batch_size

RECURSIVE AuxSamples(_)
\* torch.cat over the records of the auxiliary buffer: number of samples
AuxSamples(aux) ==
    IF aux = <<>> THEN 0 ELSE Len(Head(aux).states) + AuxSamples(Tail(aux))

\* variant: a phase makes at least one pass
Passes_at_least_one(n) == IF n = 0 THEN 1 ELSE n

\* range(self.epochs), range(self.epochs_aux): the passes a phase makes
Passes(n) == n

(***************************************************************************)
(* Init: main() up to the construction of the agent (lines 342-387) and    *)
(* the loop counters (lines 396-398).                                      *)
(***************************************************************************)
Configs ==
    [update_timesteps : UpdateTimesteps,
     num_policy_updates_per_aux : PolicyUpdatesPerAux,
     num_episodes : {NumEpisodes},
     max_timesteps : 1..MaxTimesteps,
     epochs : Epochs,
     epochs_aux : EpochsAux,
     minibatch_size : MinibatchSizes,
     save_every : SaveEvery,
     load : BOOLEAN]

FnIdle == [kind |-> "none"]

\* lines 368-369, 371-387, 396-398: empty buffers, a new agent, counters at 0
Constructed ==
    /\ eps = 0
    /\ timestep = 0
    /\ time = 0
    /\ num_policy_updates = 0
    /\ memories = <<>>
    /\ aux_memories = <<>>
    /\ state = 0
    /\ next_state = 0
    /\ done = FALSE
    /\ env_obs = 0
    /\ agent = NewAgent
    /\ epoch = 0
    /\ batches_left = 0
    /\ learn_calls = 0
    /\ aux_calls = 0

MainInit ==
    /\ cfg \in Configs
    /\ ckpt \in {NoFile, PriorCheckpoint}
    /\ pc = "load"
    /\ Constructed

Init == MainInit /\ fn = FnIdle

(***************************************************************************)
(* main(): one action per step of the loop.                                *)
(***************************************************************************)
\* lines 389-390: if load: agent.load()
Load ==
    /\ pc = "load"
    /\ agent' = IF cfg.load THEN load(agent, ckpt) ELSE agent
    /\ pc' = "episode"
    /\ UNCHANGED <<cfg, eps, timestep, time, num_policy_updates, memories,
                   aux_memories, state, next_state, done, env_obs, ckpt,
                   epoch, batches_left, learn_calls, aux_calls, fn>>

\* lines 400-402: the next episode starts, env.reset() yields a new observation
EpisodeStart ==
    /\ pc = "episode"
    /\ eps < cfg.num_episodes
    /\ env_obs' = env_obs + 1
    /\ state' = env_obs + 1
    /\ timestep' = 0
    /\ pc' = "step"
    /\ UNCHANGED <<cfg, eps, time, num_policy_updates, memories, aux_memories,
                   next_state, done, agent, ckpt, epoch, batches_left,
                   learn_calls, aux_calls, fn>>

\* line 453: the episodes are exhausted
Finish ==
    /\ pc = "episode"
    /\ eps >= cfg.num_episodes
    /\ pc' = "done"
    /\ UNCHANGED <<cfg, eps, timestep, time, num_policy_updates, memories,
                   aux_memories, state, next_state, done, env_obs, agent, ckpt,
                   epoch, batches_left, learn_calls, aux_calls, fn>>

\* variant: the counter is compared before it is incremented
UpdateDue_before_increment(t, update_timesteps) == (t - 1) % update_timesteps = 0

\* the test of line 431
UpdateDue(t, update_timesteps) == t % update_timesteps = 0

\* lines 404-431: one environment step; the transition is recorded
EnvStep ==
    /\ pc = "step"
    /\ \E d \in BOOLEAN :
        /\ time' = time + 1
        /\ env_obs' = env_obs + 1
        /\ next_state' = env_obs + 1
        /\ done' = d
        /\ memories' = Append(memories, Memory(state, d, agent, time + 1, env_obs + 1))
        /\ state' = env_obs + 1
        /\ pc' = IF UpdateDue(time + 1, cfg.update_timesteps) THEN "learn" ELSE "loop_end"
    /\ UNCHANGED <<cfg, eps, timestep, num_policy_updates, aux_memories, agent,
                   ckpt, epoch, batches_left, learn_calls, aux_calls, fn>>

\* line 432, PPG.learn lines 184-228: returns are computed, one AuxMemory is
\* appended, the DataLoader over the trajectory is built
LearnPrepare ==
    /\ pc = "learn"
    /\ learn_calls' = learn_calls + 1
    /\ aux_memories' = Append(aux_memories, AuxMemory(memories, next_state))
    /\ epoch' = 0
    /\ batches_left' = NumBatches(Len(memories), cfg.minibatch_size)
    /\ pc' = IF Passes(cfg.epochs) > 0 THEN "learn_policy" ELSE "learn_ret"
    /\ UNCHANGED <<cfg, eps, timestep, time, num_policy_updates, memories,
                   state, next_state, done, env_obs, agent, ckpt, aux_calls, fn>>

\* PPG.learn lines 233-247: the policy loss of one minibatch, one step of opt_actor
LearnPolicyStep ==
    /\ pc = "learn_policy"
    /\ agent' = update_network_(agent, {"actor"}, "opt_actor")
    /\ pc' = "learn_value"
    /\ UNCHANGED <<cfg, eps, timestep, time, num_policy_updates, memories,
                   aux_memories, state, next_state, done, env_obs, ckpt,
                   epoch, batches_left, learn_calls, aux_calls, fn>>

\* PPG.learn lines 250-256: the value loss of the same minibatch, one step of
\* opt_critic; then the next minibatch, the next epoch, or the return
LearnValueStep ==
    /\ pc = "learn_value"
    /\ agent' = update_network_(agent, {"critic"}, "opt_critic")
    /\ IF batches_left > 1
         THEN /\ batches_left' = batches_left - 1
              /\ epoch' = epoch
              /\ pc' = "learn_policy"
         ELSE IF epoch + 1 < Passes(cfg.epochs)
         THEN /\ batches_left' = NumBatches(Len(memories), cfg.minibatch_size)
              /\ epoch' = epoch + 1
              /\ pc' = "learn_policy"
         ELSE /\ batches_left' = 0
              /\ epoch' = epoch
              /\ pc' = "learn_ret"
    /\ UNCHANGED <<cfg, eps, timestep, time, num_policy_updates, memories,
                   aux_memories, state, next_state, done, env_obs, ckpt,
                   learn_calls, aux_calls, fn>>

\* variant: the counter is compared before it is incremented
AuxDue_before_increment(n, per_aux) == (n - 1) % per_aux = 0

\* the test of line 436
AuxDue(n, per_aux) == n % per_aux = 0

\* variant: the trajectory buffer is not cleared after the update
PolicyUpdateDone_no_clear ==
    /\ pc = "learn_ret"
    /\ num_policy_updates' = num_policy_updates + 1
    /\ pc' = IF AuxDue(num_policy_updates + 1, cfg.num_policy_updates_per_aux)
             THEN "learn_aux" ELSE "loop_end"
    /\ UNCHANGED <<cfg, eps, timestep, time, memories, aux_memories, state,
                   next_state, done, env_obs, agent, ckpt, epoch, batches_left,
                   learn_calls, aux_calls, fn>>

\* lines 433-436: agent.learn has returned
PolicyUpdateDone ==
    /\ pc = "learn_ret"
    /\ num_policy_updates' = num_policy_updates + 1
    /\ memories' = <<>>
    /\ pc' = IF AuxDue(num_policy_updates + 1, cfg.num_policy_updates_per_aux)
             THEN "learn_aux" ELSE "loop_end"
    /\ UNCHANGED <<cfg, eps, timestep, time, aux_memories, state, next_state,
                   done, env_obs, agent, ckpt, epoch, batches_left,
                   learn_calls, aux_calls, fn>>

\* line 437, PPG.learn_aux lines 260-279: the records are concatenated, the
\* DataLoader over all their samples is built
LearnAuxPrepare ==
    /\ pc = "learn_aux"
    /\ aux_calls' = aux_calls + 1
    /\ epoch' = 0
    /\ batches_left' = NumBatches(AuxSamples(aux_memories), cfg.minibatch_size)
    /\ pc' = IF Passes(cfg.epochs_aux) > 0 THEN "aux_policy" ELSE "aux_ret"
    /\ UNCHANGED <<cfg, eps, timestep, time, num_policy_updates, memories,
                   aux_memories, state, next_state, done, env_obs, agent, ckpt,
                   learn_calls, fn>>

\* PPG.learn_aux lines 287-301: auxiliary + KL loss, one step of opt_actor
AuxPolicyStep ==
    /\ pc = "aux_policy"
    /\ agent' = update_network_(agent, {"actor"}, "opt_actor")
    /\ pc' = "aux_value"
    /\ UNCHANGED <<cfg, eps, timestep, time, num_policy_updates, memories,
                   aux_memories, state, next_state, done, env_obs, ckpt,
                   epoch, batches_left, learn_calls, aux_calls, fn>>

\* PPG.learn_aux lines 304-309: value loss, one step of opt_critic
AuxValueStep ==
    /\ pc = "aux_value"
    /\ agent' = update_network_(agent, {"critic"}, "opt_critic")
    /\ IF batches_left > 1
         THEN /\ batches_left' = batches_left - 1
              /\ epoch' = epoch
              /\ pc' = "aux_policy"
         ELSE IF epoch + 1 < Passes(cfg.epochs_aux)
         THEN /\ batches_left' = NumBatches(AuxSamples(aux_memories), cfg.minibatch_size)
              /\ epoch' = epoch + 1
              /\ pc' = "aux_policy"
         ELSE /\ batches_left' = 0
              /\ epoch' = epoch
              /\ pc' = "aux_ret"
    /\ UNCHANGED <<cfg, eps, timestep, time, num_policy_updates, memories,
                   aux_memories, state, next_state, done, env_obs, ckpt,
                   learn_calls, aux_calls, fn>>

\* line 438: agent.learn_aux has returned
AuxClear ==
    /\ pc = "aux_ret"
    /\ aux_memories' = <<>>
    /\ pc' = "loop_end"
    /\ UNCHANGED <<cfg, eps, timestep, time, num_policy_updates, memories,
                   state, next_state, done, env_obs, agent, ckpt, epoch,
                   batches_left, learn_calls, aux_calls, fn>>

\* lines 442-445 and the header of line 403: the episode ends on done or when
\* range(max_timesteps) is exhausted
LoopEnd ==
    /\ pc = "loop_end"
    /\ IF ~done /\ timestep + 1 < cfg.max_timesteps
         THEN timestep' = timestep + 1 /\ pc' = "step"
         ELSE timestep' = timestep /\ pc' = "episode_end"
    /\ UNCHANGED <<cfg, eps, time, num_policy_updates, memories, aux_memories,
                   state, next_state, done, env_obs, agent, ckpt, epoch,
                   batches_left, learn_calls, aux_calls, fn>>

\* lines 450-451 and the header of line 400
EpisodeEnd ==
    /\ pc = "episode_end"
    /\ ckpt' = IF eps % cfg.save_every = 0 THEN save(agent) ELSE ckpt
    /\ eps' = eps + 1
    /\ pc' = "episode"
    /\ UNCHANGED <<cfg, timestep, time, num_policy_updates, memories,
                   aux_memories, state, next_state, done, env_obs, agent,
                   epoch, batches_left, learn_calls, aux_calls, fn>>

Next ==
    \/ Load
    \/ EpisodeStart
    \/ Finish
    \/ EnvStep
    \/ LearnPrepare
    \/ LearnPolicyStep
    \/ LearnValueStep
    \/ PolicyUpdateDone
    \/ LearnAuxPrepare
    \/ AuxPolicyStep
    \/ AuxValueStep
    \/ AuxClear
    \/ LoopEnd
    \/ EpisodeEnd

Spec == Init /\ [][Next]_vars

(***************************************************************************)
(* Part 2: the numeric kernels.                                            *)
(*                                                                         *)
(* The code computes on binary floating-point numbers (float32 tensors and *)
(* Python floats).  The model keeps the shape of that arithmetic at a      *)
(* small size: a number is an integer count of the quantum 1/One, a        *)
(* representable number has at most MantBits significant bits, and every   *)
(* operation returns the exact result rounded to the nearest representable *)
(* number, ties to even.  Overflow, infinities and NaN are not modelled.   *)
(***************************************************************************)
MantBits == 3          \* significant bits of a representable number
FracBits == 1          \* One = 2^FracBits quanta
MaxLen == 2            \* longest trajectory handed to the GAE recurrence
MaxBatch == 2          \* largest minibatch handed to a loss

One == 2 ^ FracBits
Half == One \div 2

Abs(x) == IF x < 0 THEN -x ELSE x
Min(a, b) == IF a <= b THEN a ELSE b
Max(a, b) == IF a >= b THEN a ELSE b

RECURSIVE UlpFor(_, _, _)
\* the spacing of the representable numbers around a / d
UlpFor(a, d, u) ==
    IF a < (2 ^ MantBits) * u * d THEN u ELSE UlpFor(a, d, 2 * u)

\* a / d rounded to the nearest integer, ties to even
RoundHalfEven(a, d) ==
    LET q == a \div d
        r == a % d
    IN  IF 2 * r < d THEN q
        ELSE IF 2 * r > d THEN q + 1
        ELSE IF q % 2 = 0 THEN q ELSE q + 1

\* the representable number nearest to the rational n / d  (d > 0)
Fl(n, d) ==
    LET a == Abs(n)
        u == UlpFor(a, d, 1)
        m == RoundHalfEven(a, d * u) * u
    IN  IF n < 0 THEN -m ELSE m

Representable(x) == Fl(x, 1) = x

FAdd(a, b) == Fl(a + b, 1)
FSub(a, b) == Fl(a - b, 1)
FMul(a, b) == Fl(a * b, One)

\* Tensor.clamp(min, max): max(x, min) first, then min(., max); when min > max
\* every element becomes max
clamp_swapped(x, lo, hi) == Min(Max(x, hi), lo)

clamp(x, lo, hi) == Min(Max(x, lo), hi)

RECURSIVE FSum(_)
FSum(s) == IF s = <<>> THEN 0 ELSE FAdd(FSum(SubSeq(s, 1, Len(s) - 1)), s[Len(s)])

\* torch.mean over a batch
Mean(s) == Fl(FSum(s), Len(s))

(***************************************************************************)
(* The GAE recurrence of PPG.learn, lines 196-209.                         *)
(***************************************************************************)
\* line 196: masks.append(1 - float(mem.done))
Mask(d) == IF d THEN 0 ELSE One

\* line 207: delta = rewards[i] + self.gamma * values[i + 1] * masks[i] - values[i]
Delta(reward, value, value_next, mask, gamma) ==
    FSub(FAdd(reward, FMul(FMul(gamma, value_next), mask)), value)

\* variant: the recursive term is not masked
NextGae_unmasked(delta, gae, mask, gamma, lam) ==
    FAdd(delta, FMul(FMul(gamma, lam), gae))

\* line 208: gae = delta + self.gamma * self.lam * masks[i] * gae
NextGae(delta, gae, mask, gamma, lam) ==
    FAdd(delta, FMul(FMul(FMul(gamma, lam), mask), gae))

\* variant: the advantage is returned in place of the return
ReturnOf_advantage(gae, value) == gae

\* line 209: gae + values[i]
ReturnOf(gae, value) == FAdd(gae, value)

RECURSIVE GaeLoop(_, _, _, _, _, _, _, _)
\* lines 204-209: for i in reversed(range(len(rewards))), returns.insert(0, .)
\* (indices are 1-based here: values[i + 1] is the successor of values[i])
GaeLoop(i, gae, returns, rewards, values, masks, gamma, lam) ==
    IF i = 0 THEN returns
    ELSE LET delta == Delta(rewards[i], values[i], values[i + 1], masks[i], gamma)
             g == NextGae(delta, gae, masks[i], gamma, lam)
         IN  GaeLoop(i - 1, g, <<ReturnOf(g, values[i])>> \o returns,
                     rewards, values, masks, gamma, lam)

\* lines 191-209: the returns of a trajectory; next_value is the critic's value
\* of the state after the last transition (lines 200-202)
Returns(rewards, recorded_values, dones, next_value, gamma, lam) ==
    LET values == Append(recorded_values, next_value)
        masks == [i \in 1..Len(dones) |-> Mask(dones[i])]
    IN  GaeLoop(Len(rewards), 0, <<>>, rewards, values, masks, gamma, lam)

(***************************************************************************)
(* clipped_value_loss, lines 123-127.                                      *)
(***************************************************************************)
clipped_value_loss(values, rewards, old_values, clip) ==
    LET n == Len(values)
        value_clipped == [i \in 1..n |->
            FAdd(old_values[i], clamp(FSub(values[i], old_values[i]), -clip, clip))]
        value_loss_1 == [i \in 1..n |->
            LET e == FSub(value_clipped[i], rewards[i]) IN FMul(e, e)]
        value_loss_2 == [i \in 1..n |->
            LET e == FSub(values[i], rewards[i]) IN FMul(e, e)]
    IN  Mean([i \in 1..n |-> Max(value_loss_1[i], value_loss_2[i])])

(***************************************************************************)
(* The clipped surrogate of PPG.learn, lines 240-244, for one sample.      *)
(* The normalized advantage, the entropy and the two log-probabilities are *)
(* inputs.                                                                 *)
(***************************************************************************)
\* Tensor.exp on the differences of log-probabilities that occur: e^x to three
\* decimals, rounded to a representable number; e^0 is 1 exactly
Exp(x) ==
    IF x = 0 THEN One
    ELSE IF x = -One THEN Fl(368 * One, 1000)
    ELSE IF x = -Half THEN Fl(607 * One, 1000)
    ELSE IF x = Half THEN Fl(1649 * One, 1000)
    ELSE Fl(2718 * One, 1000)

\* variant: the clip range is [-eps_clip, eps_clip]
ClipRange_around_zero(eps_clip) == <<-eps_clip, eps_clip>>

\* line 243: the bounds 1 - self.eps_clip, 1 + self.eps_clip
ClipRange(eps_clip) == <<FSub(One, eps_clip), FAdd(One, eps_clip)>>

\* lines 240-244
policy_loss(action_log_prob, old_log_prob, advantage, entropy, beta_s, eps_clip) ==
    LET ratio == Exp(FSub(action_log_prob, old_log_prob))
        surr1 == FMul(ratio, advantage)
        range == ClipRange(eps_clip)
        surr2 == FMul(clamp(ratio, range[1], range[2]), advantage)
    IN  [ratio |-> ratio, surr1 |-> surr1, surr2 |-> surr2,
         policy_loss |-> FSub(-Min(surr1, surr2), FMul(beta_s, entropy))]

(***************************************************************************)
(* Specifications of the kernels: Init draws an input, the action applies  *)
(* the kernel to it.  The training loop stays as constructed.              *)
(***************************************************************************)
Parked ==
    /\ cfg = CHOOSE c \in Configs : TRUE
    /\ ckpt = NoFile
    /\ pc = "kernel"
    /\ Constructed

RewardVals == {-3, 0, 1}
ValueVals == {0, 1, 16}
Discounts == {0, Half, One}
Lambdas == {Half, One}

GaeInputs ==
    UNION {[rewards : [1..n -> RewardVals],
            values : [1..n -> ValueVals],
            dones : [1..n -> BOOLEAN],
            next_value : ValueVals,
            gamma : Discounts,
            lam : Lambdas] : n \in 1..MaxLen}

InitGAE ==
    /\ Parked
    /\ fn \in {[kind |-> "gae", applied |-> FALSE, in |-> x, out |-> <<>>] : x \in GaeInputs}

ApplyGAE ==
    /\ fn.kind = "gae"
    /\ ~fn.applied
    /\ fn' = [fn EXCEPT !.applied = TRUE,
                        !.out = Returns(fn.in.rewards, fn.in.values, fn.in.dones,
                                        fn.in.next_value, fn.in.gamma, fn.in.lam)]
    /\ UNCHANGED mainvars

SpecGAE == InitGAE /\ [][ApplyGAE]_vars

LossValues == {-2, 0, 1, 16}
LossReturns == {0, 3}
ValueClips == {0, 1, 3, 16}

ValueLossInputs ==
    UNION {[values : [1..n -> LossValues],
            rewards : [1..n -> LossReturns],
            old_values : [1..n -> LossValues],
            clip : ValueClips] : n \in 1..MaxBatch}

InitValueLoss ==
    /\ Parked
    /\ fn \in {[kind |-> "value_loss", applied |-> FALSE, in |-> x, out |-> 0] :
                    x \in ValueLossInputs}

ApplyValueLoss ==
    /\ fn.kind = "value_loss"
    /\ ~fn.applied
    /\ fn' = [fn EXCEPT !.applied = TRUE,
                        !.out = clipped_value_loss(fn.in.values, fn.in.rewards,
                                                   fn.in.old_values, fn.in.clip)]
    /\ UNCHANGED mainvars

SpecValueLoss == InitValueLoss /\ [][ApplyValueLoss]_vars

LogProbs == {-One, -Half, 0}
Advantages == {-3, -1, 0, 2, 5}
Entropies == {0, 1, 3}
EntropyCoefs == {0, Half, One}
PolicyClips == {-Half, 0, Half, One}

PolicyLossInputs ==
    [action_log_prob : LogProbs,
     old_log_prob : LogProbs,
     advantage : Advantages,
     entropy : Entropies,
     beta_s : EntropyCoefs,
     eps_clip : PolicyClips]

InitPolicyLoss ==
    /\ Parked
    /\ fn \in {[kind |-> "policy_loss", applied |-> FALSE, in |-> x, out |-> <<>>] :
                    x \in PolicyLossInputs}

ApplyPolicyLoss ==
    /\ fn.kind = "policy_loss"
    /\ ~fn.applied
    /\ fn' = [fn EXCEPT !.applied = TRUE,
                        !.out = policy_loss(fn.in.action_log_prob, fn.in.old_log_prob,
                                            fn.in.advantage, fn.in.entropy,
                                            fn.in.beta_s, fn.in.eps_clip)]
    /\ UNCHANGED mainvars

SpecPolicyLoss == InitPolicyLoss /\ [][ApplyPolicyLoss]_vars

(***************************************************************************)
(* Properties of the training loop.                                        *)
(***************************************************************************)
InLearn == pc \in {"learn", "learn_policy", "learn_value", "learn_ret"}
InLearnAux == pc \in {"learn_aux", "aux_policy", "aux_value", "aux_ret"}

\* C1: agent.learn is invoked exactly at the steps whose global counter `time`
\* is a positive multiple of update_timesteps: when the call is about to be
\* made, time is such a multiple and floor(time / update_timesteps) - 1 calls
\* were made before; everywhere else the number of calls made so far is
\* floor(time / update_timesteps), however the steps split into episodes.
C1_LearnEveryUpdateTimesteps ==
    LET u == cfg.update_timesteps
    IN  /\ pc = "learn" =>
            /\ time > 0
            /\ time % u = 0
            /\ learn_calls = (time \div u) - 1
        /\ pc # "learn" => learn_calls = time \div u

\* C1 witness: the second call of learn happens on the first step of the second
\* episode (3 steps in the first episode, update_timesteps = 2).
C1_Witness ==
    /\ cfg.update_timesteps = 2
    /\ eps = 1
    /\ timestep = 0
    /\ time = 4
    /\ pc = "loop_end"
    /\ learn_calls = 2

\* C2: the trajectory buffer holds exactly the transitions recorded since the
\* last call of learn, in recording order: while learn runs these are the
\* update_timesteps transitions up to `time`; otherwise the time %
\* update_timesteps transitions up to `time` (none right after the update).
C2_MemoriesSinceLastLearn ==
    LET u == cfg.update_timesteps
        n == IF InLearn THEN u ELSE time % u
    IN  /\ Len(memories) = n
        /\ \A i \in 1..Len(memories) : memories[i].t = time - n + i
        /\ (pc \in {"learn_aux", "loop_end"} /\ time % u = 0) => memories = <<>>

\* C2 witness: learn is invoked on a buffer of 3 transitions that spans two
\* episodes (the first one ended by done after one step).
C2_Witness ==
    /\ pc = "learn"
    /\ eps = 1
    /\ Len(memories) = 3
    /\ memories[1].done
    /\ ~memories[2].done

\* C3: learn_aux is invoked exactly after the policy updates whose count is a
\* positive multiple of num_policy_updates_per_aux; every learn call appends
\* one record, learn_aux finds exactly num_policy_updates_per_aux records, the
\* buffer never holds more, and it is empty once the auxiliary phase is over.
C3_AuxEveryNPolicyUpdates ==
    LET n == cfg.num_policy_updates_per_aux
    IN  /\ Len(aux_memories) <= n
        /\ pc = "learn_aux" =>
            /\ num_policy_updates > 0
            /\ num_policy_updates % n = 0
            /\ aux_calls = (num_policy_updates \div n) - 1
        /\ pc # "learn_aux" => aux_calls = num_policy_updates \div n
        /\ pc \in {"learn_aux", "aux_policy", "aux_value", "aux_ret"} =>
            Len(aux_memories) = n
        /\ pc \in {"learn_policy", "learn_value", "learn_ret"} =>
            Len(aux_memories) = (num_policy_updates % n) + 1
        /\ ~InLearnAux /\ pc \notin {"learn_policy", "learn_value", "learn_ret"} =>
            Len(aux_memories) = num_policy_updates % n

\* C3 witness: the second auxiliary phase starts, with 2 records buffered.
C3_Witness ==
    /\ pc = "learn_aux"
    /\ cfg.num_policy_updates_per_aux = 2
    /\ num_policy_updates = 4
    /\ Len(aux_memories) = 2

\* C8: with epochs_aux = 0 a call of learn_aux on a non-empty buffer takes no
\* optimizer step: from its invocation to its return both networks, both
\* optimizers and the auxiliary buffer are unchanged; the buffer is emptied by
\* main() right after the return.
C8_LearnAuxZeroEpochsNoOp ==
    [][/\ (cfg.epochs_aux = 0 /\ pc \in {"learn_aux", "aux_policy", "aux_value"}) =>
            /\ aux_memories # <<>>
            /\ agent' = agent
            /\ aux_memories' = aux_memories
            /\ pc' = "aux_ret"
       /\ pc = "aux_ret" => (aux_memories' = <<>> /\ agent' = agent)]_vars

\* C8 witness: learn_aux has returned with epochs_aux = 0, the buffer still
\* holds its records.
C8_Witness ==
    /\ pc = "aux_ret"
    /\ cfg.epochs_aux = 0
    /\ Len(aux_memories) = 2

\* C9: every minibatch step of learn and of learn_aux is one step of the
\* actor's optimizer that moves the policy network's parameters and nothing of
\* the value network, followed by one step of the critic's optimizer that moves
\* the value network's parameters and nothing of the policy network; nothing
\* else in the loop moves a parameter or an optimizer.
C9_SeparateGradientSteps ==
    [][/\ pc \in {"learn_policy", "aux_policy"} =>
            /\ agent'.opt_actor = agent.opt_actor + 1
            /\ agent'.opt_critic = agent.opt_critic
            /\ agent'.actor = Stepped(agent.actor)
            /\ agent'.critic = agent.critic
            /\ pc' = IF pc = "learn_policy" THEN "learn_value" ELSE "aux_value"
       /\ pc \in {"learn_value", "aux_value"} =>
            /\ agent'.opt_critic = agent.opt_critic + 1
            /\ agent'.opt_actor = agent.opt_actor
            /\ agent'.critic = Stepped(agent.critic)
            /\ agent'.actor = agent.actor
            /\ agent'.opt_actor = agent'.opt_critic
       /\ pc \notin {"learn_policy", "aux_policy", "learn_value", "aux_value", "load"} =>
            /\ agent'.actor = agent.actor
            /\ agent'.critic = agent.critic
            /\ agent'.opt_actor = agent.opt_actor
            /\ agent'.opt_critic = agent.opt_critic]_vars

\* C9 witness: an auxiliary phase has finished its minibatches after a policy
\* phase; each network took as many steps as its optimizer.
C9_Witness ==
    /\ pc = "aux_ret"
    /\ cfg.epochs_aux = 1
    /\ agent.opt_actor >= 2
    /\ agent.actor.steps = agent.opt_actor
    /\ agent.critic.steps = agent.opt_critic

\* C10: load without a checkpoint file leaves the agent as constructed and the
\* run goes on; with a checkpoint that save wrote, both networks' parameters
\* become the saved ones; what save writes is what load reads back.
C10_LoadAbsentIsNoOp ==
    [][/\ (pc = "load" /\ cfg.load) =>
            /\ pc' = "episode"
            /\ ~ckpt.exists => agent' = agent
            /\ ckpt.exists =>
                /\ agent'.actor = ckpt.actor
                /\ agent'.critic = ckpt.critic
       /\ load(NewAgent, save(agent)).actor = agent.actor
       /\ load(NewAgent, save(agent)).critic = agent.critic]_vars

\* C10 witness: load ran with no file present; the fresh initialisation is kept.
C10_Witness ==
    /\ pc = "episode"
    /\ eps = 0
    /\ cfg.load
    /\ ~ckpt.exists
    /\ agent = NewAgent

\* C11: whenever agent.learn is invoked, for every buffered transition i with
\* done_i = false the successor value the GAE recurrence reads is the critic's
\* value of the observation env.step returned for transition i.
C11_SuccessorValueOfReturnedState ==
    pc = "learn" =>
        \A i \in 1..Len(memories) :
            ~memories[i].done =>
                GaeValues(memories, next_state, agent)[i + 1]
                    = [critic |-> agent.critic, state |-> memories[i].returned]

(***************************************************************************)
(* Properties of the numeric kernels.                                      *)
(***************************************************************************)
GaeApplied == fn.kind = "gae" /\ fn.applied

\* the trajectory cut after index k, with bootstrap value b
ReturnsUpTo(k, b) ==
    Returns(SubSeq(fn.in.rewards, 1, k), SubSeq(fn.in.values, 1, k),
            SubSeq(fn.in.dones, 1, k), b, fn.in.gamma, fn.in.lam)

\* C4 (as stated): at every index k with done_k the return equals the reward,
\* and no return at an index i <= k depends on what follows k.
C4_Original ==
    GaeApplied =>
        \A k \in 1..Len(fn.in.dones) :
            fn.in.dones[k] =>
                /\ fn.out[k] = fn.in.rewards[k]
                /\ \A b \in ValueVals :
                        LET cut == ReturnsUpTo(k, b)
                        IN  \A i \in 1..k : fn.out[i] = cut[i]

\* C4 (amended): at every index k with done_k the return is (reward_k -
\* value_k) + value_k as the floating-point arithmetic rounds it, which is
\* reward_k whenever reward_k - value_k is representable; and for every
\* i <= k the return at i is the one the trajectory cut after k yields with
\* any bootstrap value: nothing behind a terminal step reaches it.
C4_TerminalStepCutsPropagation ==
    GaeApplied =>
        \A k \in 1..Len(fn.in.dones) :
            fn.in.dones[k] =>
                /\ fn.out[k] = FAdd(FSub(fn.in.rewards[k], fn.in.values[k]), fn.in.values[k])
                /\ Representable(fn.in.rewards[k] - fn.in.values[k]) =>
                        fn.out[k] = fn.in.rewards[k]
                /\ \A b \in ValueVals :
                        LET cut == ReturnsUpTo(k, b)
                        IN  \A i \in 1..k : fn.out[i] = cut[i]

\* C4 witness: a terminal first step followed by a second step with nonzero
\* reward, value and bootstrap, undiscounted; the first return is the reward.
C4_Witness ==
    /\ GaeApplied
    /\ Len(fn.in.dones) = 2
    /\ fn.in.dones = <<TRUE, FALSE>>
    /\ fn.in.gamma = One /\ fn.in.lam = One
    /\ fn.in.rewards = <<1, -3>>
    /\ fn.in.values = <<1, 16>>
    /\ fn.in.next_value = 16
    /\ fn.out[1] = 1
    /\ fn.out[2] # 0

ZeroRewardUndiscounted ==
    /\ GaeApplied
    /\ fn.in.gamma = One
    /\ fn.in.lam = One
    /\ \A i \in 1..Len(fn.in.rewards) : fn.in.rewards[i] = 0 /\ ~fn.in.dones[i]

ValueLossApplied == fn.kind = "value_loss" /\ fn.applied

WithinClip ==
    \A i \in 1..Len(fn.in.values) :
        Abs(fn.in.values[i] - fn.in.old_values[i]) <= fn.in.clip

\* mean((values - returns)^2) in the arithmetic of the code
MeanSquaredError ==
    Mean([i \in 1..Len(fn.in.values) |->
            LET e == FSub(fn.in.values[i], fn.in.rewards[i]) IN FMul(e, e)])

\* C6 (as stated): the loss is mean((values - returns)^2) for every batch with
\* |values - old_values| <= clip in every element.
C6_Original ==
    (ValueLossApplied /\ WithinClip) => fn.out = MeanSquaredError

\* C6 (amended): the loss is mean((values - returns)^2) for every batch with
\* |values - old_values| <= clip in every element whose differences values -
\* old_values are representable (old_values + (values - old_values) then gives
\* values back).
C6_UnclippedInsideBand ==
    (/\ ValueLossApplied
     /\ WithinClip
     /\ \A i \in 1..Len(fn.in.values) :
            Representable(fn.in.values[i] - fn.in.old_values[i]))
    => fn.out = MeanSquaredError

\* C6 witness: a batch of two inside the band, one element on its edge, with a
\* nonzero loss.
C6_Witness ==
    /\ ValueLossApplied
    /\ fn.in.values = <<1, -2>>
    /\ fn.in.old_values = <<-2, -2>>
    /\ fn.in.rewards = <<3, 0>>
    /\ fn.in.clip = 3
    /\ fn.out = MeanSquaredError
    /\ fn.out > 0

PolicyLossApplied == fn.kind = "policy_loss" /\ fn.applied

UnchangedPolicyLoss ==
    /\ fn.out.surr1 = fn.in.advantage
    /\ fn.out.surr2 = fn.in.advantage
    /\ fn.out.policy_loss = FSub(-fn.in.advantage, FMul(fn.in.beta_s, fn.in.entropy))

\* C7 (as stated): with ratio = 1, surr1 = surr2 = advantage and the loss is
\* -advantage - beta_s * entropy, for every eps_clip.
C7_Original ==
    (PolicyLossApplied /\ fn.out.ratio = One) => UnchangedPolicyLoss

\* C7 (amended): with ratio = 1, surr1 = surr2 = advantage and the loss is
\* -advantage - beta_s * entropy, for every eps_clip >= 0 and every sign of
\* the advantage.
C7_RatioOneIgnoresClip ==
    (PolicyLossApplied /\ fn.out.ratio = One /\ fn.in.eps_clip >= 0)
    => UnchangedPolicyLoss

\* C7 witness: equal log-probabilities, a negative advantage, a positive clip
\* and a positive entropy bonus.
C7_Witness ==
    /\ PolicyLossApplied
    /\ fn.in.action_log_prob = -Half
    /\ fn.in.old_log_prob = -Half
    /\ fn.out.ratio = One
    /\ fn.in.advantage = -3
    /\ fn.in.eps_clip = Half
    /\ fn.in.beta_s = One
    /\ fn.in.entropy = 3
    /\ fn.out.policy_loss = 0

====
